---- MODULE Spec2Model ----
(***************************************************************************)
(* A model of the portfolio RAG backend: the corpus chunker and the        *)
(* ingestion pipeline (app/ingestion/loader.py), the vector index manager  *)
(* (app/services/vector_db.py) and the chat endpoint (main.py).            *)
(*                                                                         *)
(* Python values are modelled as follows.  A dict is a function whose      *)
(* DOMAIN is its key set, a list is a sequence, a str is a TLA+ string     *)
(* (or, where substring tests matter, a sequence of one-character          *)
(* strings), and None is the distinguished string None.                    *)
(***************************************************************************)
EXTENDS Integers, Sequences, FiniteSets, TLC

VARIABLES
    \* ---- create_text_chunks (loader.py) ----
    data,        \* the parsed portfolio.json handed to create_text_chunks
    kpc,         \* "input" | "returned" | "raised"
    chunks,      \* the list create_text_chunks returned (<<>> before / on raise)
    \* ---- the external vector store (Pinecone), one named index ----
    sstatus,     \* "absent" | "initializing" | "ready" | "terminating"
    sdim,        \* the index's declared dimension (0 when absent)
    svecs,       \* the ids of the vectors the index holds
    \* ---- vector_db.py ----
    apiKey,      \* settings.PINECONE_API_KEY is set
    index,       \* the module global `index`: "None" | "Index"
    op,          \* the vector_db function running: "none" | "import" |
                 \*   "query" | "upsert" | "delete_all"; "dead" once the
                 \*   import of vector_db has failed
    ores,        \* how the last vector_db call ended: "none" | "ok" | "raised"
    epc,         \* position inside _ensure_index_exists
    existing,    \* the local existing_indexes holds the index name
    entry,       \* the store's index as it was when _ensure_index_exists was entered
    arg,         \* the argument of the running upsert_vectors call
    \* ---- load_data (loader.py) ----
    lpc,         \* position inside load_data: "start" | "clearing" | "text" |
                 \*   "image" | "decide" | "upserting" | "done" | "aborted"
    li,          \* the index of the chunk the running loop is at
    vectors,     \* the local list `vectors`
    textOk,      \* the chunks whose get_text_embedding call returned
    imageOk,     \* the chunks whose get_image_embedding call returned
    lrun,        \* 1 in the first run of load_data, 2 in the second
    first,       \* what the first run submitted and left in the index
    \* ---- chat_endpoint (main.py) ----
    query,             \* request.message
    hpc,               \* position inside chat_endpoint: "start" | "embed" |
                       \*   "query" | "querying" | "loop" | "generate" |
                       \*   "attach" | "compose" | "returned" | "http500"
    matched_projects,  \* the local set matched_projects
    show_profile,      \* the local show_profile
    wants_media,       \* the local wants_media
    embedding,         \* the local embedding
    matches,           \* search_results['matches']
    mi,                \* the index of the match the loop of line 110 is at
    retrieved,         \* the locals context_text, media_by_project, profile_image
    full_response,     \* the local full_response
    response_text,     \* the local response_text
    suggestions,       \* the local suggestions
    final_images,      \* the local final_images
    final_videos,      \* the local final_videos
    result,            \* the JSON body returned (None before)
    \* ---- get_embedding (embedding_service.py) ----
    hfKey,       \* settings.HUGGINGFACE_API_KEY is set
    gtext,       \* the argument text
    gpc,         \* position inside get_embedding: "idle" | "entered" |
                 \*   "attempt" | "sleeping" | "returned" | "raised"
    attempt,     \* the loop variable attempt
    upstream,    \* how each call of client.feature_extraction ended, in order:
                 \*   "ok" or the text of the exception
    slept,       \* the seconds of each time.sleep, in order
    gres         \* the vector returned, or the text of the exception raised

kvars == <<data, kpc, chunks>>
svars == <<sstatus, sdim, svecs>>
dvars == <<apiKey, index, op, ores, epc, existing, entry, arg>>
lvars == <<lpc, li, vectors, textOk, imageOk, lrun, first>>
hvars == <<query, hpc, matched_projects, show_profile, wants_media, embedding,
           matches, mi, retrieved, full_response, response_text, suggestions,
           final_images, final_videos, result>>
gvars == <<hfKey, gtext, gpc, attempt, upstream, slept, gres>>
\* The variables of the callers of vector_db, and of the other services.
cvars == <<kvars, lvars, hvars, gvars>>
vars == <<kvars, svars, dvars, lvars, hvars, gvars>>

-----------------------------------------------------------------------------
(* Python helpers *)

\* Python's None.
None == "<None>"

\* The empty dict {}.
EmptyDict == [k \in {} |-> ""]

\* d.get(k, default)
Get(d, k, default) == IF k \in DOMAIN d THEN d[k] ELSE default

\* d.get(k): None when the key is absent
GetOrNone(d, k) == Get(d, k, None)

\* How an f-string renders a value: None renders as the text "None".
Str(v) == IF v = None THEN "None" ELSE v

\* ', '.join(list)
RECURSIVE JoinWith(_, _)
JoinWith(sep, list) ==
    IF Len(list) = 0 THEN ""
    ELSE IF Len(list) = 1 THEN list[1]
    ELSE list[1] \o sep \o JoinWith(sep, Tail(list))

JoinComma(list) == JoinWith(", ", list)

\* bool(s) for a value that is None or a str: None and "" are falsy.
Truthy(v) == v # None /\ v # ""

\* s.startswith(prefix)
StartsWith(s, prefix) ==
    Len(s) >= Len(prefix) /\ SubSeq(s, 1, Len(prefix)) = prefix

\* The index of the first occurrence of t in s at or after position i, or
\* 0 when there is none (s.find(t), counted from 1).
RECURSIVE FindFrom(_, _, _)
FindFrom(s, t, i) ==
    IF i + Len(t) - 1 > Len(s) THEN 0
    ELSE IF SubSeq(s, i, i + Len(t) - 1) = t THEN i
    ELSE FindFrom(s, t, i + 1)

\* t in s, for two strings
Contains(s, t) == FindFrom(s, t, 1) # 0

UpperCase == "ABCDEFGHIJKLMNOPQRSTUVWXYZ"
LowerCase == "abcdefghijklmnopqrstuvwxyz"

\* c.lower() for a one-character string
LowerChar(c) ==
    LET i == FindFrom(UpperCase, c, 1)
    IN  IF i = 0 THEN c ELSE SubSeq(LowerCase, i, i)

\* s.lower()
RECURSIVE Lower(_)
Lower(s) == IF s = "" THEN "" ELSE LowerChar(Head(s)) \o Lower(Tail(s))

\* any(w in s for w in words), words a list
ContainsAny(s, words) == \E j \in DOMAIN words : Contains(s, words[j])

-----------------------------------------------------------------------------
(* create_text_chunks (app/ingestion/loader.py)                            *)
(*                                                                         *)
(* Every template is an f-string whose result is .strip()ped.  The field   *)
(* values of the corpora below carry no leading or trailing blanks, so     *)
(* strip() removes exactly the template's first line break and indent,     *)
(* its last line break and indent, and, when the last field is empty, the  *)
(* blank that follows the last label's colon.                              *)

NL4 == "\n    "
NL8 == "\n        "

\* A template line "<label>: <value>" that ends the text: strip() eats the
\* blank after the colon when the value is empty.
LastLine(label, v) == IF v = "" THEN label \o ":" ELSE label \o ": " \o v

\* The KeyError a subscript d['k'] raises when the key is absent.
KeyError == [ok |-> FALSE, error |-> "KeyError"]

profile_text(profile) ==
    "Name: " \o Str(Get(profile, "name", "Unknown"))
    \o NL4 \o "Title: " \o Str(Get(profile, "title", ""))
    \o NL4 \o "Bio: " \o Str(Get(profile, "bio", ""))
    \o NL4 \o LastLine("Location", Str(Get(profile, "location", "")))

ProfileChunk(d) ==
    LET profile == Get(d, "profile", EmptyDict) IN
    [ id       |-> "profile",
      text     |-> profile_text(profile),
      type     |-> "profile",
      metadata |-> [ section   |-> "about",
                     image_url |-> GetOrNone(profile, "avatar_image") ] ]

skills_text(skills) ==
    "Technical Skills:"
    \o NL4 \o "- Programming Languages: " \o JoinComma(Get(skills, "languages", <<>>))
    \o NL4 \o "- AI/ML: " \o JoinComma(Get(skills, "ai_ml", <<>>))
    \o NL4 \o "- Frameworks & Libraries: " \o JoinComma(Get(skills, "frameworks_libraries", <<>>))
    \o NL4 \o "- Development Platforms: " \o JoinComma(Get(skills, "development_platforms", <<>>))
    \o NL4 \o LastLine("- Cloud", JoinComma(Get(skills, "cloud", <<>>)))

SkillsChunk(d) ==
    [ id       |-> "skills",
      text     |-> skills_text(Get(d, "skills", EmptyDict)),
      type     |-> "skills",
      metadata |-> [ section |-> "skills" ] ]

\* The keys the comprehension of line 79 subscripts in every documents entry.
DocKeys == {"name", "type", "url"}

\* Line 79 raises KeyError when an entry of project['documents'] lacks one
\* of the subscripted keys.
DocumentsRaise(project) ==
    /\ "documents" \in DOMAIN project
    /\ \E j \in DOMAIN project["documents"] :
           ~(DocKeys \subseteq DOMAIN project["documents"][j])

DocLine(doc) == "- " \o doc["name"] \o " (" \o doc["type"] \o "): " \o doc["url"]

docs_str(docs) == JoinWith("\n", [j \in DOMAIN docs |-> DocLine(docs[j])])

project_head(project) ==
    "Project: " \o Str(Get(project, "title", ""))
    \o NL8 \o "Description: " \o Str(Get(project, "description", ""))
    \o NL8 \o "Details: " \o Str(Get(project, "long_description", ""))
    \o NL8 \o "Technologies: " \o JoinComma(Get(project, "tech_stack", <<>>))
    \o NL8 \o "Features: " \o JoinComma(Get(project, "features", <<>>))
    \o NL8 \o "Status: " \o Str(Get(project, "status", ""))

project_text(project) ==
    IF "documents" \in DOMAIN project
    THEN project_head(project)
         \o NL8 \o "Category: " \o Str(Get(project, "category", ""))
         \o NL8 \o "\n"
         \o (IF Len(project["documents"]) = 0 THEN "Documents:"
             ELSE "Documents:\n" \o docs_str(project["documents"]))
    ELSE project_head(project)
         \o NL8 \o LastLine("Category", Str(Get(project, "category", "")))

ProjectChunk(project) ==
    [ id       |-> "project-" \o Str(Get(project, "id", "unknown")),
      text     |-> project_text(project),
      type     |-> "project",
      metadata |-> [ section    |-> "projects",
                     project_id |-> GetOrNone(project, "id"),
                     title      |-> GetOrNone(project, "title"),
                     demo_url   |-> GetOrNone(project, "demo_url"),
                     github_url |-> GetOrNone(project, "github_url"),
                     image_url  |-> GetOrNone(project, "image"),
                     video_url  |-> GetOrNone(project, "video") ] ]

exp_text(exp) ==
    "Experience: " \o Str(Get(exp, "role", "")) \o " at " \o Str(Get(exp, "company", ""))
    \o NL8 \o "Duration: " \o Str(Get(exp, "duration", ""))
    \o NL8 \o "Location: " \o Str(Get(exp, "location", ""))
    \o NL8 \o "Description: " \o Str(Get(exp, "description", ""))
    \o NL8 \o "Responsibilities: " \o JoinComma(Get(exp, "responsibilities", <<>>))
    \o NL8 \o LastLine("Technologies", JoinComma(Get(exp, "technologies", <<>>)))

ExperienceChunk(exp) ==
    [ id       |-> "experience-" \o Str(Get(exp, "id", "unknown")),
      text     |-> exp_text(exp),
      type     |-> "experience",
      metadata |-> [ section |-> "experience",
                     company |-> GetOrNone(exp, "company") ] ]

edu_text(edu) ==
    "Education: " \o Str(Get(edu, "degree", "")) \o " from " \o Str(Get(edu, "institution", ""))
    \o NL8 \o "Duration: " \o Str(Get(edu, "duration", ""))
    \o NL8 \o "Location: " \o Str(Get(edu, "location", ""))
    \o NL8 \o "Description: " \o Str(Get(edu, "description", ""))
    \o NL8 \o LastLine("Key Courses", JoinComma(Get(edu, "courses", <<>>)))

EducationChunk(edu) ==
    [ id       |-> "education-" \o Str(Get(edu, "id", "unknown")),
      text     |-> edu_text(edu),
      type     |-> "education",
      metadata |-> [ section     |-> "education",
                     institution |-> GetOrNone(edu, "institution") ] ]

cert_text(cert) ==
    "Certification: " \o Str(Get(cert, "name", ""))
    \o NL8 \o "Issuer: " \o Str(Get(cert, "issuer", ""))
    \o NL8 \o "Date: " \o Str(Get(cert, "date", ""))
    \o NL8 \o LastLine("URL", Str(Get(cert, "url", "")))

CertificationChunk(cert) ==
    [ id       |-> "certification-" \o Str(Get(cert, "id", "unknown")),
      text     |-> cert_text(cert),
      type     |-> "certification",
      metadata |-> [ section |-> "certifications",
                     name    |-> GetOrNone(cert, "name") ] ]

contact_text(d) ==
    LET contact == Get(d, "contact", EmptyDict)
        social  == Get(contact, "social_links", EmptyDict)
    IN  "Contact Information:"
        \o NL4 \o "Email: " \o Str(Get(Get(d, "profile", EmptyDict), "email", ""))
        \o NL4 \o "Availability: " \o Str(Get(contact, "availability", ""))
        \o NL4 \o "Use email for contact."
        \o NL4 \o "GitHub: " \o Str(Get(social, "github", ""))
        \o NL4 \o LastLine("LinkedIn", Str(Get(social, "linkedin", "")))

ContactChunk(d) ==
    [ id       |-> "contact",
      text     |-> contact_text(d),
      type     |-> "contact",
      metadata |-> [ section |-> "contact" ] ]

\* [f(x) for x in list]
MapSeq(F(_), list) == [j \in 1..Len(list) |-> F(list[j])]

\* create_text_chunks with the project loop passing over the items that
\* carry no 'id'.
create_text_chunks_skip(d) ==
    LET projects == SelectSeq(Get(d, "projects", <<>>), LAMBDA p : "id" \in DOMAIN p) IN
    IF \E j \in DOMAIN projects : DocumentsRaise(projects[j])
    THEN KeyError
    ELSE [ ok     |-> TRUE,
           chunks |-> <<ProfileChunk(d), SkillsChunk(d)>>
                      \o MapSeq(ProjectChunk, projects)
                      \o MapSeq(ExperienceChunk, Get(d, "experience", <<>>))
                      \o MapSeq(EducationChunk, Get(d, "education", <<>>))
                      \o MapSeq(CertificationChunk, Get(d, "certifications", <<>>))
                      \o <<ContactChunk(d)>> ]

\* The result of create_text_chunks(d): the list of chunks, or the
\* exception that leaves the function.
create_text_chunks(d) ==
    LET projects == Get(d, "projects", <<>>) IN
    IF \E j \in DOMAIN projects : DocumentsRaise(projects[j])
    THEN KeyError
    ELSE [ ok     |-> TRUE,
           chunks |-> <<ProfileChunk(d), SkillsChunk(d)>>
                      \o MapSeq(ProjectChunk, projects)
                      \o MapSeq(ExperienceChunk, Get(d, "experience", <<>>))
                      \o MapSeq(EducationChunk, Get(d, "education", <<>>))
                      \o MapSeq(CertificationChunk, Get(d, "certifications", <<>>))
                      \o <<ContactChunk(d)>> ]

\* clean_metadata that filters nothing.
clean_metadata_keep(metadata) == metadata

\* clean_metadata(metadata): drop the keys mapped to None.
clean_metadata(metadata) ==
    [k \in {x \in DOMAIN metadata : metadata[x] # None} |-> metadata[k]]

-----------------------------------------------------------------------------
(* The external vector store and vector_db.py *)

\* OpenCLIP ViT-B-32 produces 512-dimensional embeddings.
REQUIRED_DIMENSION == 512
\* The dimension of the BGE model's embeddings, which the index had before.
BGE_DIMENSION == 384

\* Ids of vectors an earlier ingestion may have left in the index.
OldIds == {"project-old", "profile"}

\* pc.list_indexes() names the index as long as the store holds it, a
\* deleted index included until the store has finished deleting it.
Listed == sstatus # "absent"

\* The store's index, as describe_index reports it.
Described == [status |-> sstatus, dimension |-> sdim]

\* The store and vector_db at rest, for the specifications that do not use them.
StoreIdle == sstatus = "absent" /\ sdim = 0 /\ svecs = {}
DbIdle ==
    /\ apiKey = TRUE /\ index = "None" /\ op = "none" /\ ores = "none"
    /\ epc = "idle" /\ existing = FALSE /\ entry = Described /\ arg = <<>>

\* The store finishes deleting an index.
StoreFinishDelete ==
    /\ sstatus = "terminating"
    /\ sstatus' = "absent" /\ sdim' = 0
    /\ UNCHANGED <<svecs, cvars, dvars>>

\* The store finishes initializing a created index.
StoreBecomeReady ==
    /\ sstatus = "initializing"
    /\ sstatus' = "ready"
    /\ UNCHANGED <<sdim, svecs, cvars, dvars>>

\* load_data before it is run, for the specifications that do not run it.
NoFirst == [batch |-> {}, ids |-> {}, textOk |-> {}, imageOk |-> {}]
LoadIdle ==
    /\ lpc = "start" /\ li = 1 /\ vectors = <<>> /\ textOk = {} /\ imageOk = {}
    /\ lrun = 1 /\ first = NoFirst

\* The locals of the retrieval loop before its first iteration (lines 106-108).
NoneRetrieved == [context_text |-> "", media_by_project |-> <<>>, profile_image |-> None]

\* get_embedding before a call, with the credential set.
EmbedIdle ==
    /\ hfKey = TRUE /\ gtext = "" /\ gpc = "idle" /\ attempt = 0
    /\ upstream = <<>> /\ slept = <<>> /\ gres = None

\* chat_endpoint before a request, for the specifications without requests.
ChatIdle ==
    /\ query = "" /\ hpc = "start" /\ matched_projects = {}
    /\ show_profile = FALSE /\ wants_media = FALSE /\ embedding = None
    /\ matches = <<>> /\ mi = 1 /\ retrieved = NoneRetrieved
    /\ full_response = "" /\ response_text = "" /\ suggestions = <<>>
    /\ final_images = <<>> /\ final_videos = <<>> /\ result = None

\* A vector_db function enters _ensure_index_exists().
EnterEnsure ==
    /\ epc' = "list" /\ existing' = FALSE /\ entry' = Described

\* Line 14: existing_indexes = [i.name for i in pc.list_indexes()].  The
\* store answers a client that has the API key only.
EnsureList ==
    /\ epc = "list"
    /\ \/ apiKey /\ existing' = Listed /\ epc' = IF Listed THEN "describe" ELSE "check"
       \/ existing' = existing /\ epc' = "raised"
    /\ UNCHANGED <<svars, cvars, apiKey, index, op, ores, entry, arg>>

\* The test of line 18.
DimensionMismatch(dimension) == dimension # REQUIRED_DIMENSION

\* Lines 17-18: details = pc.describe_index(name); describe_index raises
\* when the store no longer holds the index.
EnsureDescribe ==
    /\ epc = "describe"
    /\ \/ /\ sstatus # "absent"
          /\ epc' = IF DimensionMismatch(Described.dimension) THEN "delete" ELSE "check"
       \/ epc' = "raised"
    /\ UNCHANGED <<svars, cvars, apiKey, index, op, ores, existing, entry, arg>>

\* Line 20: pc.delete_index(name).  The store starts deleting the index
\* and drops its vectors; the call raises when there is no such index.
EnsureDelete ==
    /\ epc = "delete"
    /\ \/ /\ sstatus # "absent"
          /\ sstatus' = "terminating" /\ svecs' = {} /\ epc' = "sleep"
          /\ UNCHANGED sdim
       \/ epc' = "raised" /\ UNCHANGED svars
    /\ UNCHANGED <<cvars, apiKey, index, op, ores, existing, entry, arg>>

\* Lines 21-22: time.sleep(10), then existing_indexes is read again.  The
\* store may or may not have finished the deletion by then.
EnsureRelist ==
    /\ epc = "sleep"
    /\ \/ existing' = Listed /\ epc' = "check"
       \/ existing' = existing /\ epc' = "raised"
    /\ UNCHANGED <<svars, cvars, apiKey, index, op, ores, entry, arg>>

\* Line 24: if name not in existing_indexes
EnsureCheck ==
    /\ epc = "check"
    /\ epc' = IF ~existing THEN "create" ELSE "handle"
    /\ UNCHANGED <<svars, cvars, apiKey, index, op, ores, existing, entry, arg>>

\* Lines 27-35: pc.create_index(name, dimension=REQUIRED_DIMENSION, ...).
\* The store refuses a name it still holds (409).
EnsureCreate ==
    /\ epc = "create"
    /\ \/ /\ sstatus = "absent"
          /\ sstatus' = "initializing" /\ sdim' = REQUIRED_DIMENSION /\ svecs' = {}
          /\ epc' = "wait"
       \/ epc' = "raised" /\ UNCHANGED svars
    /\ UNCHANGED <<cvars, apiKey, index, op, ores, existing, entry, arg>>

\* Lines 37-38: while not pc.describe_index(name).status['ready']: sleep(2)
EnsureWait ==
    /\ epc = "wait"
    /\ \/ sstatus = "ready" /\ epc' = "handle"
       \/ epc' = "raised"
    /\ UNCHANGED <<svars, cvars, apiKey, index, op, ores, existing, entry, arg>>

\* Line 44: return pc.Index(name).  The client resolves the index's host,
\* from its cache or by describe_index, which raises when the index is gone.
EnsureReturn ==
    /\ epc = "handle"
    /\ \/ epc' = "returned"
       \/ sstatus = "absent" /\ epc' = "raised"
    /\ UNCHANGED <<svars, cvars, apiKey, index, op, ores, existing, entry, arg>>

Ensure ==
    \/ EnsureList \/ EnsureDescribe \/ EnsureDelete \/ EnsureRelist
    \/ EnsureCheck \/ EnsureCreate \/ EnsureWait \/ EnsureReturn

\* The data plane serves an index that is ready.
Serving == sstatus = "ready"

\* The index takes (upsert) or answers (query) vectors of its own dimension
\* only; the store rejects any other.
Accepts(values) == Serving /\ values.dim = sdim

\* Line 47: index = _ensure_index_exists() if settings.PINECONE_API_KEY else None
ImportBegin ==
    /\ op = "none" /\ ores = "none"
    /\ IF apiKey
       THEN op' = "import" /\ EnterEnsure /\ UNCHANGED <<index, ores>>
       ELSE /\ index' = "None" /\ ores' = "ok"
            /\ UNCHANGED <<op, epc, existing, entry>>
    /\ UNCHANGED <<svars, cvars, apiKey, arg>>

\* An exception of line 47 ends the importing process: op becomes "dead".
ImportEnd ==
    /\ op = "import" /\ epc \in {"returned", "raised"}
    /\ IF epc = "returned"
       THEN index' = "Index" /\ ores' = "ok" /\ op' = "none"
       ELSE index' = index /\ ores' = "raised" /\ op' = "dead"
    /\ epc' = "idle"
    /\ UNCHANGED <<svars, cvars, apiKey, existing, entry, arg>>

\* Lines 59-61: upsert_vectors(vectors) enters _ensure_index_exists().
upsert_vectors(vs) ==
    /\ op' = "upsert" /\ arg' = vs /\ ores' = "none"
    /\ EnterEnsure
    /\ UNCHANGED <<index, apiKey, svars>>

\* [v['id'] for v in vectors], as a set
IdSet(vs) == { vs[j].id : j \in DOMAIN vs }

\* Line 62: index.upsert(vectors=vectors), or the exception that leaves
\* upsert_vectors.
UpsertEnd ==
    /\ op = "upsert" /\ epc \in {"returned", "raised"}
    /\ \/ /\ epc = "returned" /\ \A j \in DOMAIN arg : Accepts(arg[j].values)
          /\ index' = "Index" /\ svecs' = svecs \cup IdSet(arg) /\ ores' = "ok"
       \/ /\ epc = "returned"
          /\ index' = "Index" /\ svecs' = svecs /\ ores' = "raised"
       \/ /\ epc = "raised"
          /\ index' = index /\ svecs' = svecs /\ ores' = "raised"
    /\ op' = "none" /\ epc' = "idle"
    /\ UNCHANGED <<sstatus, sdim, cvars, apiKey, existing, entry, arg>>

\* Lines 64-67: delete_all_vectors() enters _ensure_index_exists().
delete_all_vectors ==
    /\ op' = "delete_all" /\ ores' = "none"
    /\ EnterEnsure
    /\ UNCHANGED <<index, apiKey, arg, svars>>

\* The index's contents after index.delete(delete_all=True) succeeded.
Cleared(vecs) == {}

\* Lines 68-71: index.delete(delete_all=True); whatever is raised inside
\* the try block is printed and swallowed.
DeleteAllEnd ==
    /\ op = "delete_all" /\ epc \in {"returned", "raised"}
    /\ \/ /\ epc = "returned" /\ Serving
          /\ index' = "Index" /\ svecs' = Cleared(svecs)
       \/ /\ epc = "returned"
          /\ index' = "Index" /\ svecs' = svecs
       \/ /\ epc = "raised"
          /\ index' = index /\ svecs' = svecs
    /\ ores' = "ok" /\ op' = "none" /\ epc' = "idle"
    /\ UNCHANGED <<sstatus, sdim, cvars, apiKey, existing, entry, arg>>

\* Lines 49-52: query_vectors(vector, top_k) enters _ensure_index_exists()
\* only when the global index is None.
query_vectors(vector) ==
    /\ op' = "query" /\ arg' = vector /\ ores' = "none"
    /\ IF index = "None" THEN EnterEnsure
       ELSE epc' = "returned" /\ UNCHANGED <<existing, entry>>
    /\ UNCHANGED <<index, apiKey, svars>>

\* Lines 53-57: index.query(...), or the exception that leaves query_vectors.
QueryEnd ==
    /\ op = "query" /\ epc \in {"returned", "raised"}
    /\ \/ epc = "returned" /\ Accepts(arg) /\ index' = "Index" /\ ores' = "ok"
       \/ epc = "returned" /\ index' = "Index" /\ ores' = "raised"
       \/ epc = "raised" /\ index' = index /\ ores' = "raised"
    /\ op' = "none" /\ epc' = "idle"
    /\ UNCHANGED <<svars, cvars, apiKey, existing, entry, arg>>

-----------------------------------------------------------------------------
(* Specification SpecIndex: the functions of vector_db.py, called in any   *)
(* order against any state of the store                                    *)

InitIndex ==
    /\ \/ sstatus = "absent" /\ sdim = 0 /\ svecs = {}
       \/ /\ sstatus \in {"initializing", "ready"}
          /\ sdim \in {BGE_DIMENSION, REQUIRED_DIMENSION}
          /\ svecs \in IF sstatus = "ready" THEN SUBSET OldIds ELSE {{}}
    /\ apiKey \in BOOLEAN
    /\ index = "None" /\ op = "none" /\ ores = "none"
    /\ epc = "idle" /\ existing = FALSE /\ entry = Described /\ arg = <<>>
    /\ data = EmptyDict /\ kpc = "input" /\ chunks = <<>>
    /\ LoadIdle
    /\ ChatIdle /\ EmbedIdle

\* The module has been imported and no call is running.
AtRest == op = "none" /\ ores # "none"

CallUpsert ==
    /\ AtRest
    /\ \E id \in {"profile", "skills"} :
         upsert_vectors(<<[id |-> id, values |-> [kind |-> "text", dim |-> REQUIRED_DIMENSION]]>>)
    /\ UNCHANGED cvars

CallDeleteAll == AtRest /\ delete_all_vectors /\ UNCHANGED cvars

CallQuery ==
    /\ AtRest
    /\ \E d \in {BGE_DIMENSION, REQUIRED_DIMENSION} : query_vectors([kind |-> "text", dim |-> d])
    /\ UNCHANGED cvars

NextIndex ==
    \/ ImportBegin \/ ImportEnd
    \/ CallUpsert \/ UpsertEnd
    \/ CallDeleteAll \/ DeleteAllEnd
    \/ CallQuery \/ QueryEnd
    \/ Ensure
    \/ StoreFinishDelete \/ StoreBecomeReady

SpecIndex == InitIndex /\ [][NextIndex]_vars

-----------------------------------------------------------------------------
(* The corpora create_text_chunks is applied to *)

\* Longest 'projects' list of a corpus.
MaxProjects == 2
\* Longest 'experience', 'education' and 'certifications' list of a corpus.
MaxItems == 1

\* Items of data['projects']: a complete project with an http image and a
\* video; a project with a relative image path and a well-formed document;
\* a project with no field at all; a project whose document entry lacks
\* 'type' and 'url'.
ProjectShapes ==
    << [ id |-> "verdex-mobile-app", title |-> "Verdex",
         description |-> "Crop disease app", tech_stack |-> <<"Flutter", "TFLite">>,
         status |-> "Completed", image |-> "http://x/img.png",
         video |-> "http://x/vid.mp4", github_url |-> "http://x/gh" ],
       [ id |-> "3d-mri-sr", title |-> "3D MRI", image |-> "assets/mri.png",
         documents |-> << [ name |-> "Paper", type |-> "pdf", url |-> "http://x/p.pdf" ] >> ],
       EmptyDict,
       [ id |-> "sinhala-rag", title |-> "Sinhala RAG",
         documents |-> << [ name |-> "Report" ] >> ] >>

ExperienceShapes ==
    << [ id |-> "e1", role |-> "ML Intern", company |-> "Acme",
         responsibilities |-> <<"Training", "Serving">> ],
       EmptyDict >>

EducationShapes ==
    << [ id |-> "ed1", degree |-> "BSc", institution |-> "UoM", courses |-> <<"ML">> ],
       EmptyDict >>

CertificationShapes ==
    << [ id |-> "c1", name |-> "TF Developer", issuer |-> "Google" ],
       EmptyDict >>

\* data['profile']: complete, with an http avatar; present but empty.
ProfileShapes ==
    << [ name |-> "Molindu", title |-> "ML Engineer", bio |-> "Builds models",
         location |-> "Colombo", email |-> "m@x.io", avatar_image |-> "http://x/me.png" ],
       EmptyDict >>

SkillsShapes == << [ languages |-> <<"Python", "Dart">>, cloud |-> <<"GCP">> ] >>

ContactShapes ==
    << [ availability |-> "Open to work",
         social_links |-> [ github |-> "http://x/gh", linkedin |-> "http://x/li" ] ] >>

\* The sequences over S of length at most n.
SeqsUpTo(S, n) == UNION { [1..m -> S] : m \in 0..n }

\* {key: value} when the key is present, {} when it is absent.
Opt(present, key, value) == IF present THEN key :> value ELSE EmptyDict

\* [shapes[i] for i in idx]
Pick(shapes, idx) == [j \in 1..Len(idx) |-> shapes[idx[j]]]

\* The corpus with the chosen items; a choice of 0 (or of no item) leaves
\* the top-level key out of the document.
Corpus(pf, sk, ct, pr, ex, ed, ce) ==
    Opt(pf > 0, "profile", ProfileShapes[pf])
    @@ Opt(sk > 0, "skills", SkillsShapes[sk])
    @@ Opt(ct > 0, "contact", ContactShapes[ct])
    @@ Opt(Len(pr) > 0, "projects", Pick(ProjectShapes, pr))
    @@ Opt(Len(ex) > 0, "experience", Pick(ExperienceShapes, ex))
    @@ Opt(Len(ed) > 0, "education", Pick(EducationShapes, ed))
    @@ Opt(Len(ce) > 0, "certifications", Pick(CertificationShapes, ce))

-----------------------------------------------------------------------------
(* Specification SpecChunk: create_text_chunks applied to every corpus *)

InitChunk ==
    /\ \E pf \in 0..Len(ProfileShapes), sk \in 0..Len(SkillsShapes),
          ct \in 0..Len(ContactShapes),
          pr \in SeqsUpTo(1..Len(ProjectShapes), MaxProjects),
          ex \in SeqsUpTo(1..Len(ExperienceShapes), MaxItems),
          ed \in SeqsUpTo(1..Len(EducationShapes), MaxItems),
          ce \in SeqsUpTo(1..Len(CertificationShapes), MaxItems) :
            data = Corpus(pf, sk, ct, pr, ex, ed, ce)
    /\ kpc = "input"
    /\ chunks = <<>>
    /\ StoreIdle
    /\ DbIdle
    /\ LoadIdle
    /\ ChatIdle /\ EmbedIdle

\* chunks = create_text_chunks(data)
CreateTextChunks ==
    /\ kpc = "input"
    /\ LET r == create_text_chunks(data) IN
         IF r.ok THEN kpc' = "returned" /\ chunks' = r.chunks
                 ELSE kpc' = "raised" /\ chunks' = <<>>
    /\ UNCHANGED <<data, svars, dvars, lvars, hvars, gvars>>

NextChunk == CreateTextChunks

SpecChunk == InitChunk /\ [][NextChunk]_vars

-----------------------------------------------------------------------------
(* load_data (app/ingestion/loader.py) *)

\* Line 210: if image_url and image_url.startswith('http')
HasHttpImage(chunk) ==
    LET image_url == GetOrNone(chunk.metadata, "image_url")
    IN  Truthy(image_url) /\ StartsWith(image_url, "http")

\* {"a": x, **m}: the keys of m override those written before it.
Merge(base, m) == m @@ base

\* Lines 190-201: the vector of a chunk's text.
TextVector(chunk) ==
    [ id       |-> chunk.id,
      values   |-> [kind |-> "text", dim |-> REQUIRED_DIMENSION],
      metadata |-> clean_metadata(
                      Merge([text |-> chunk.text, type |-> chunk.type],
                            chunk.metadata)) ]

\* Lines 216-228: the vector of a chunk's image.
ImageVector(chunk) ==
    [ id       |-> chunk.id \o "-image",
      values   |-> [kind |-> "image", dim |-> REQUIRED_DIMENSION],
      metadata |-> clean_metadata(
                      Merge([text |-> "[Image for "
                                       \o Str(Get(chunk.metadata, "title", chunk.id))
                                       \o "]",
                             type |-> chunk.type \o "_image",
                             parent_id |-> chunk.id],
                            chunk.metadata)) ]

\* Lines 172 and 171: load_data() starts by calling delete_all_vectors().
LoadStart ==
    /\ lpc = "start" /\ op = "none" /\ ores = "ok"
    /\ delete_all_vectors
    /\ lpc' = "clearing"
    /\ vectors' = <<>> /\ li' = 1 /\ textOk' = {} /\ imageOk' = {}
    /\ UNCHANGED <<hvars, gvars, kvars, lrun, first>>

\* Lines 175-181: the corpus is parsed and chunked; an exception of
\* create_text_chunks leaves load_data.
LoadChunk ==
    /\ lpc = "clearing" /\ op = "none"
    /\ LET r == create_text_chunks(data) IN
         IF r.ok THEN kpc' = "returned" /\ chunks' = r.chunks /\ lpc' = "text"
                 ELSE kpc' = "raised" /\ chunks' = <<>> /\ lpc' = "aborted"
    /\ UNCHANGED <<hvars, gvars, data, svars, dvars, li, vectors, textOk, imageOk, lrun, first>>

\* The append of line 197 moved out of the try block: a vector without
\* values is appended for the chunk whose embedding raised.
AfterTextFailure_append(vs, chunk) ==
    Append(vs, [id |-> chunk.id, values |-> [kind |-> "none", dim |-> 0],
                metadata |-> EmptyDict])

\* Lines 202-204: the list `vectors` after get_text_embedding raised for
\* the chunk: the exception is printed, nothing is appended.
AfterTextFailure(vs, chunk) == vs

\* Lines 229-231: the same for get_image_embedding.
AfterImageFailure(vs, chunk) == vs

\* Lines 185-204, one iteration: get_text_embedding(chunk['text']) returns
\* or raises.
LoadText ==
    /\ lpc = "text" /\ li <= Len(chunks)
    /\ \/ /\ vectors' = Append(vectors, TextVector(chunks[li]))
          /\ textOk' = textOk \cup {li}
       \/ /\ vectors' = AfterTextFailure(vectors, chunks[li])
          /\ textOk' = textOk
    /\ li' = li + 1
    /\ UNCHANGED <<hvars, gvars, kvars, svars, dvars, lpc, imageOk, lrun, first>>

\* The text loop is exhausted: the image loop of line 208 begins.
LoadTextDone ==
    /\ lpc = "text" /\ li > Len(chunks)
    /\ lpc' = "image" /\ li' = 1
    /\ UNCHANGED <<hvars, gvars, kvars, svars, dvars, vectors, textOk, imageOk, lrun, first>>

\* Lines 208-231, one iteration: a chunk without an http image is passed
\* over; for the others get_image_embedding(image_url) returns or raises.
LoadImage ==
    /\ lpc = "image" /\ li <= Len(chunks)
    /\ IF HasHttpImage(chunks[li])
       THEN \/ /\ vectors' = Append(vectors, ImageVector(chunks[li]))
               /\ imageOk' = imageOk \cup {li}
            \/ /\ vectors' = AfterImageFailure(vectors, chunks[li])
               /\ imageOk' = imageOk
       ELSE vectors' = vectors /\ imageOk' = imageOk
    /\ li' = li + 1
    /\ UNCHANGED <<hvars, gvars, kvars, svars, dvars, lpc, textOk, lrun, first>>

\* The image loop is exhausted: line 233 is reached.
LoadImageDone ==
    /\ lpc = "image" /\ li > Len(chunks)
    /\ lpc' = "decide"
    /\ UNCHANGED <<hvars, gvars, kvars, svars, dvars, li, vectors, textOk, imageOk, lrun, first>>

\* Lines 233-238: if vectors: upsert_vectors(vectors), else nothing is upserted.
LoadDecide ==
    /\ lpc = "decide"
    /\ IF vectors # <<>>
       THEN upsert_vectors(vectors) /\ lpc' = "upserting"
       ELSE lpc' = "done" /\ UNCHANGED <<svars, dvars>>
    /\ UNCHANGED <<hvars, gvars, kvars, li, vectors, textOk, imageOk, lrun, first>>

\* upsert_vectors has returned (line 236) or raised, which leaves load_data.
LoadUpserted ==
    /\ lpc = "upserting" /\ op = "none"
    /\ lpc' = IF ores = "ok" THEN "done" ELSE "aborted"
    /\ UNCHANGED <<hvars, gvars, kvars, svars, dvars, li, vectors, textOk, imageOk, lrun, first>>

\* load_data() is run once more on the unchanged corpus; what the first
\* run submitted and left in the index is remembered.
LoadAgain ==
    /\ lpc = "done" /\ lrun = 1
    /\ first' = [batch |-> IdSet(vectors), ids |-> svecs, textOk |-> textOk,
                 imageOk |-> imageOk]
    /\ lrun' = 2 /\ lpc' = "start"
    /\ UNCHANGED <<hvars, gvars, kvars, svars, dvars, li, vectors, textOk, imageOk>>

-----------------------------------------------------------------------------
(* Specification SpecIngest: load_data() run twice in a row on an          *)
(* unchanged corpus, against any state of the store                        *)

\* The corpora ingested: profile with an http avatar, skills, contact and a
\* project with an http image; a project and an experience item without
\* any field; an empty profile and a project with a relative image path;
\* a project with a malformed documents entry.
IngestCorpora ==
    << Corpus(1, 1, 1, <<1>>, <<>>, <<>>, <<>>),
       Corpus(0, 0, 0, <<3>>, <<2>>, <<>>, <<>>),
       Corpus(2, 0, 0, <<2>>, <<>>, <<>>, <<>>),
       Corpus(0, 0, 0, <<4>>, <<>>, <<>>, <<>>) >>

InitIngest ==
    /\ \/ sstatus = "absent" /\ sdim = 0 /\ svecs = {}
       \/ /\ sstatus = "ready"
          /\ sdim \in {BGE_DIMENSION, REQUIRED_DIMENSION}
          /\ svecs \in SUBSET OldIds
    /\ apiKey = TRUE
    /\ index = "None" /\ op = "none" /\ ores = "none"
    /\ epc = "idle" /\ existing = FALSE /\ entry = Described /\ arg = <<>>
    /\ \E c \in DOMAIN IngestCorpora : data = IngestCorpora[c]
    /\ kpc = "input" /\ chunks = <<>>
    /\ LoadIdle
    /\ ChatIdle /\ EmbedIdle

NextIngest ==
    \/ ImportBegin \/ ImportEnd
    \/ LoadStart \/ LoadChunk \/ LoadText \/ LoadTextDone
    \/ LoadImage \/ LoadImageDone \/ LoadDecide \/ LoadUpserted \/ LoadAgain
    \/ DeleteAllEnd \/ UpsertEnd
    \/ Ensure
    \/ StoreFinishDelete \/ StoreBecomeReady

SpecIngest == InitIngest /\ [][NextIngest]_vars

-----------------------------------------------------------------------------
(* Properties of the index manager (SpecIndex) *)

\* The store holds the index (it is not deleted, nor being deleted) with
\* the given dimension.
ExistsWith(status, dimension, d) ==
    status \in {"initializing", "ready"} /\ dimension = d

\* _ensure_index_exists was entered with an index of another dimension
\* than REQUIRED_DIMENSION in the store.
EnteredMismatched ==
    /\ entry.status \in {"initializing", "ready"}
    /\ entry.dimension # REQUIRED_DIMENSION

\* C1: whenever _ensure_index_exists() is entered while the index exists
\* with a dimension other than REQUIRED_DIMENSION and returns normally, the
\* index exists with dimension REQUIRED_DIMENSION at the return, also when
\* list_indexes() still names the index after the wait of line 21.
C1_MismatchRecovered ==
    (epc = "returned" /\ EnteredMismatched)
        => ExistsWith(sstatus, sdim, REQUIRED_DIMENSION)

-----------------------------------------------------------------------------
(* Properties of the ingestion pipeline (SpecIngest) *)

\* The vector ids the corpus gives rise to: each chunk's id and its
\* '<chunk_id>-image'.
CorpusIds(cs) ==
    { cs[j].id : j \in DOMAIN cs } \cup { cs[j].id \o "-image" : j \in DOMAIN cs }

\* C2: after any completed run of load_data(), whatever the index held
\* before and however the clear step and the embedding calls ended, every
\* vector id in the index is an id derived from the current corpus.
C2_NoStaleVectors == lpc = "done" => svecs \subseteq CorpusIds(chunks)

\* C3: after the second of two runs of load_data() in a row on an
\* unchanged corpus the index holds the same set of vector ids as after the
\* first.  Stated for the runs in which the same embedding calls returned
\* both times, where it fails all the same.
C3_Idempotent ==
    (lrun = 2 /\ lpc = "done" /\ textOk = first.textOk /\ imageOk = first.imageOk)
        => svecs = first.ids

\* [v['id'] for v in vs]
IdSeq(vs) == [j \in DOMAIN vs |-> vs[j].id]

\* The ids cs[j].id + suffix of the chunks j of S, in the order of cs, from j on.
RECURSIVE IdsFrom(_, _, _, _)
IdsFrom(cs, S, suffix, j) ==
    IF j > Len(cs) THEN <<>>
    ELSE (IF j \in S THEN <<cs[j].id \o suffix>> ELSE <<>>)
         \o IdsFrom(cs, S, suffix, j + 1)

\* The chunks with an image_url that begins with 'http'.
HttpImageChunks(cs) == { j \in DOMAIN cs : HasHttpImage(cs[j]) }

\* C4: whichever embedding calls raise, load_data goes on from its two
\* loops to the upsert decision of line 233 and never leaves them by an
\* exception, and the batch it has built there holds exactly one vector
\* for each chunk whose text embedding returned and one '<chunk_id>-image'
\* vector for each http image whose image embedding returned, and none
\* for an item whose embedding raised.
C4_PartialFailureIsolation ==
    [][ /\ lpc \in {"text", "image"} => lpc' \in {"text", "image", "decide"}
        /\ lpc' = "decide" =>
             /\ imageOk' \subseteq HttpImageChunks(chunks')
             /\ IdSeq(vectors') = IdsFrom(chunks', textOk', "", 1)
                                  \o IdsFrom(chunks', imageOk', "-image", 1) ]_vars

\* A run in which a text embedding and an image embedding raised and a
\* text embedding and an image embedding returned has reached line 233.
C4_Witness ==
    /\ lpc = "decide"
    /\ textOk # {} /\ textOk # DOMAIN chunks
    /\ imageOk # {} /\ imageOk # HttpImageChunks(chunks)

\* C5: in every vector load_data() passes to upsert_vectors, text vector
\* or image vector, no metadata key is mapped to None.
C5_NoNullMetadata ==
    op = "upsert" =>
        \A j \in DOMAIN arg : \A k \in DOMAIN arg[j].metadata :
            arg[j].metadata[k] # None

\* upsert_vectors was handed the text vector and the image vector of a
\* chunk whose own metadata maps a key to None.
C5_Witness ==
    /\ op = "upsert"
    /\ \E c \in DOMAIN chunks :
         /\ \E k \in DOMAIN chunks[c].metadata : chunks[c].metadata[k] = None
         /\ \E j \in DOMAIN arg : arg[j].id = chunks[c].id
         /\ \E j \in DOMAIN arg : arg[j].id = chunks[c].id \o "-image"

-----------------------------------------------------------------------------
(* Properties of the chunker (SpecChunk) *)

\* n copies of x
Repeat(x, n) == [j \in 1..n |-> x]

\* len(data.get(key, []))
Count(d, key) == Len(Get(d, key, <<>>))

\* The chunk types the claim expects of a corpus, in order.
ExpectedTypes(d) ==
    <<"profile", "skills">>
    \o Repeat("project", Count(d, "projects"))
    \o Repeat("experience", Count(d, "experience"))
    \o Repeat("education", Count(d, "education"))
    \o Repeat("certification", Count(d, "certifications"))
    \o <<"contact">>

DistinctIds(list) ==
    \A a, b \in DOMAIN list :
        (a # b /\ "id" \in DOMAIN list[a] /\ "id" \in DOMAIN list[b])
            => list[a]["id"] # list[b]["id"]

SourceIdsDistinct(d) ==
    \A key \in {"projects", "experience", "education", "certifications"} :
        DistinctIds(Get(d, key, <<>>))

\* C7: the ids of the chunks create_text_chunks returns are pairwise
\* distinct, also when source items lack an 'id'.  Stated for the corpora
\* whose items do not repeat an 'id' they carry.
C7_ChunkIdsUnique ==
    (kpc = "returned" /\ SourceIdsDistinct(data)) =>
        \A a, b \in DOMAIN chunks : a # b => chunks[a].id # chunks[b].id

\* C8: create_text_chunks raises no error, whichever optional fields are
\* absent from the corpus, a project's documents entries included.
C8_AbsenceNeverRaises == kpc # "raised"

-----------------------------------------------------------------------------
(* main.py: intent detection *)

\* Lines 39-46, in the order the dict is written.
PROJECT_KEYWORDS ==
    << [ project_id |-> "3d-mri-sr",
         keywords |-> << "mri", "3d mri", "super resolution", "medical imaging",
                         "brain scan", "mri video", "mri project" >> ],
       [ project_id |-> "verdex-mobile-app",
         keywords |-> << "verdex", "crop disease", "farmer", "mobile app",
                         "agriculture" >> ],
       [ project_id |-> "diabetic-retinopathy",
         keywords |-> << "diabetic", "retinopathy", "fundus", "eye disease" >> ],
       [ project_id |-> "melanoma-classification",
         keywords |-> << "melanoma", "skin cancer", "dermoscopic", "siim-isic" >> ],
       [ project_id |-> "sinhala-rag",
         keywords |-> << "sinhala fact", "fact-checking", "misinformation",
                         "sinhala rag" >> ],
       [ project_id |-> "sinhala-idioms",
         keywords |-> << "idioms", "sinhala idioms", "translation" >> ] >>

\* Line 49
PROFILE_KEYWORDS ==
    << "who are you", "about yourself", "your photo", "your picture",
       "your image", "show yourself" >>

\* Line 69
media_words ==
    << "show", "image", "picture", "photo", "video", "demo", "visual", "see", "watch" >>

\* Lines 51-60
get_matched_project_ids(q) ==
    { PROJECT_KEYWORDS[j].project_id :
        j \in { k \in DOMAIN PROJECT_KEYWORDS :
                  ContainsAny(Lower(q), PROJECT_KEYWORDS[k].keywords) } }

\* should_show_profile_image testing the query as it was typed.
should_show_profile_image_cased(q) == ContainsAny(q, PROFILE_KEYWORDS)

\* Lines 62-65
should_show_profile_image(q) == ContainsAny(Lower(q), PROFILE_KEYWORDS)

\* Lines 67-71
should_show_media(q) == ContainsAny(Lower(q), media_words)

-----------------------------------------------------------------------------
(* main.py: chat_endpoint *)

\* Line 117: the relevance threshold 0.25; scores are counted in hundredths.
RELEVANCE_THRESHOLD == 25

\* x in list
InSeq(x, list) == \E j \in DOMAIN list : list[j] = x

\* The position of the project's entry in media_by_project, 0 if it has none.
EntryOf(mbp, project_id) ==
    IF \E j \in DOMAIN mbp : mbp[j].project_id = project_id
    THEN CHOOSE j \in DOMAIN mbp : mbp[j].project_id = project_id
    ELSE 0

\* Lines 126-136: media_by_project after the media of a project match were
\* collected.  The dict is a list of entries in insertion order.
CollectMedia(mbp, project_id, metadata) ==
    LET with == IF EntryOf(mbp, project_id) = 0
                THEN Append(mbp, [ project_id |-> project_id, images |-> <<>>,
                                   videos |-> <<>>,
                                   title |-> Get(metadata, "title", "Project") ])
                ELSE mbp
        e == EntryOf(with, project_id)
        images == IF "image_url" \in DOMAIN metadata /\ Truthy(metadata["image_url"])
                  THEN Append(with[e].images, metadata["image_url"])
                  ELSE with[e].images
        videos == IF "video_url" \in DOMAIN metadata /\ Truthy(metadata["video_url"])
                  THEN Append(with[e].videos, metadata["video_url"])
                  ELSE with[e].videos
    IN  [with EXCEPT ![e].images = images, ![e].videos = videos]

\* The test of line 117 with >= in the place of >.
Relevant_ge(score, threshold) == score >= threshold

\* Line 117: if score > 0.25
Relevant(score, threshold) == score > threshold

\* Lines 111-136, one iteration of the loop over the matches: the locals
\* context_text, media_by_project and profile_image after it.
RetrieveStep(acc, match, threshold) ==
    LET score      == match.score
        metadata   == Get(match, "metadata", EmptyDict)
        text       == Get(metadata, "text", "")
        match_type == Get(metadata, "type", "")
        project_id == Get(metadata, "project_id", "")
    IN  IF Relevant(score, threshold)
        THEN [ context_text |-> acc.context_text \o text \o "\n---\n",
               profile_image |->
                   IF match_type = "profile" /\ "image_url" \in DOMAIN metadata
                   THEN metadata["image_url"] ELSE acc.profile_image,
               media_by_project |->
                   IF match_type = "project" /\ Truthy(project_id)
                   THEN CollectMedia(acc.media_by_project, project_id, metadata)
                   ELSE acc.media_by_project ]
        ELSE acc

\* list(dict.fromkeys(list)): the first occurrence of every element, in order.
RECURSIVE Dedupe(_)
Dedupe(list) ==
    IF list = <<>> THEN <<>>
    ELSE LET init == Dedupe(SubSeq(list, 1, Len(list) - 1))
             last == list[Len(list)]
         IN  IF InSeq(last, init) THEN init ELSE Append(init, last)

\* The concatenation of a list of lists.
RECURSIVE Flatten(_)
Flatten(lists) ==
    IF lists = <<>> THEN <<>> ELSE Head(lists) \o Flatten(Tail(lists))

\* The orders in which a for loop may run through a Python set.
Orders(S) ==
    { f \in [1..Cardinality(S) -> S] : \A a, b \in DOMAIN f : a # b => f[a] # f[b] }

\* Lines 166-171: the images (field "images") or videos (field "videos") of
\* the matched projects that have an entry in media_by_project, the set
\* being run through in the given order.
MatchedMedia(mbp, order, field) ==
    Flatten([j \in DOMAIN order |->
                IF EntryOf(mbp, order[j]) = 0 THEN <<>>
                ELSE mbp[EntryOf(mbp, order[j])][field]])

\* Lines 174-177: the videos of every collected project that has one.
SuggestedVideos(mbp) == Flatten([j \in DOMAIN mbp |-> mbp[j].videos])

\* Lines 158-160: final_images after the profile image was considered.
ProfileImages(show, profile_image) ==
    IF show /\ Truthy(profile_image) THEN <<profile_image>> ELSE <<>>

-----------------------------------------------------------------------------
(* main.py: the generated text and the response *)

\* c.isspace() for the characters of the model's texts
IsSpace(c) == c \in {" ", "\n", "\t", "\r"}

RECURSIVE LStrip(_)
LStrip(s) == IF s # "" /\ IsSpace(Head(s)) THEN LStrip(Tail(s)) ELSE s

RECURSIVE RStrip(_)
RStrip(s) ==
    IF s # "" /\ IsSpace(SubSeq(s, Len(s), Len(s)))
    THEN RStrip(SubSeq(s, 1, Len(s) - 1)) ELSE s

\* s.strip()
Strip(s) == LStrip(RStrip(s))

\* s.split(sep)
RECURSIVE SplitOn(_, _)
SplitOn(s, sep) ==
    LET i == FindFrom(s, sep, 1)
    IN  IF i = 0 THEN <<s>>
        ELSE <<SubSeq(s, 1, i - 1)>> \o SplitOn(SubSeq(s, i + Len(sep), Len(s)), sep)

\* s.replace(t, '')
RECURSIVE Remove(_, _)
Remove(s, t) ==
    LET i == FindFrom(s, t, 1)
    IN  IF i = 0 THEN s
        ELSE SubSeq(s, 1, i - 1) \o Remove(SubSeq(s, i + Len(t), Len(s)), t)

IsDigit(c) == Contains("0123456789", c)

\* The number of digits s begins with.
RECURSIVE LeadingDigits(_)
LeadingDigits(s) ==
    IF s # "" /\ IsDigit(Head(s)) THEN 1 + LeadingDigits(Tail(s)) ELSE 0

\* re.sub(r'^\d+\.\s*', '', s)
DropNumbering(s) ==
    LET n == LeadingDigits(s)
    IN  IF n >= 1 /\ SubSeq(s, n + 1, n + 1) = "."
        THEN LStrip(SubSeq(s, n + 2, Len(s))) ELSE s

\* re.sub(r'^-\s*', '', s)
DropDash(s) == IF s # "" /\ Head(s) = "-" THEN LStrip(Tail(s)) ELSE s

\* Lines 73-77
clean_suggestion(suggestion) ==
    Strip(DropDash(DropNumbering(
        Remove(Remove(Remove(suggestion, "**"), "*"), "\""))))

SUGGESTIONS_MARKER == "<<SUGGESTIONS>>"

\* Lines 144-151: response_text and suggestions parsed from full_response.
ParseResponse(full) ==
    IF Contains(full, SUGGESTIONS_MARKER)
    THEN LET parts == SplitOn(full, SUGGESTIONS_MARKER)
             suggestions_raw == SplitOn(Strip(parts[2]), "\n")
             kept == SelectSeq(suggestions_raw, LAMBDA l : Strip(l) # "")
         IN  [ response_text |-> Strip(parts[1]),
               suggestions |-> [j \in DOMAIN kept |-> clean_suggestion(kept[j])] ]
    ELSE [ response_text |-> full, suggestions |-> <<>> ]

\* Lines 188-190 and 192-194: the text after the loop over the urls, each
\* appended between prefix and suffix unless the text already holds it.
RECURSIVE AppendLinks(_, _, _, _)
AppendLinks(text, urls, prefix, suffix) ==
    IF urls = <<>> THEN text
    ELSE AppendLinks(IF Contains(text, Head(urls)) THEN text
                     ELSE text \o prefix \o Head(urls) \o suffix,
                     Tail(urls), prefix, suffix)

\* Lines 185-194: response_text with the Visuals section.  (The label of
\* line 194 begins with an emoji, left out here.)
WithVisuals(text, images, videos) ==
    IF images # <<>> \/ videos # <<>>
    THEN AppendLinks(AppendLinks(text \o "\n\n**Visuals:**\n", images,
                                 "![Visual](", ")\n"),
                     videos, "\n **Watch Video:** [Project Demo](", ")\n")
    ELSE text

-----------------------------------------------------------------------------
(* Specification SpecChat: one request to POST /chat *)

\* Most matches a query returns (top_k is 100; the index of the model
\* holds fewer vectors than that).
MaxMatches == 2

\* The corpus whose vectors the index holds when the request arrives.
ChatCorpus == Corpus(1, 1, 1, <<1, 2>>, <<>>, <<>>, <<>>)

\* The vectors load_data() builds from it, as upserted.
IndexedVectors ==
    LET cs == create_text_chunks(ChatCorpus).chunks
    IN  MapSeq(TextVector, cs)
        \o MapSeq(ImageVector, SelectSeq(cs, HasHttpImage))

\* Similarity scores, in hundredths: below, at and above the threshold.
Scores == {10, 25, 26}

\* The match the store returns for the vector with the score.
Match(vector, score) ==
    [id |-> vector.id, score |-> score, metadata |-> vector.metadata]

\* The requests' messages.
Queries ==
    << "Who are you?",
       "what do you know?",
       "Show the Verdex image",
       "your photo and the MRI video",
       "verdex photo",
       "seeds for a farmer" >>

\* The texts the generator returns.
Responses ==
    << "I build ML apps.",
       "I am Molindu.\n\n<<SUGGESTIONS>>\n1. What **projects**?\n- Which tech?\n\"Where\" did you work?",
       "See ![Verdex](http://x/img.png) and http://x/vid.mp4\n<<SUGGESTIONS>>\nOnly one?" >>

\* The index is shared with the ingestion runs and other deployments, so a
\* request may find it with either dimension, or deleted.
InitChat ==
    /\ \/ sstatus = "absent" /\ sdim = 0 /\ svecs = {}
       \/ /\ sstatus = "ready"
          /\ sdim \in {BGE_DIMENSION, REQUIRED_DIMENSION}
          /\ svecs = IdSet(IndexedVectors)
    /\ apiKey = TRUE /\ index = "Index" /\ op = "none" /\ ores = "ok"
    /\ epc = "idle" /\ existing = FALSE /\ entry = Described /\ arg = <<>>
    /\ data = ChatCorpus /\ kpc = "input" /\ chunks = <<>>
    /\ LoadIdle /\ EmbedIdle
    /\ \E q \in DOMAIN Queries : query = Queries[q]
    /\ hpc = "start" /\ matched_projects = {}
    /\ show_profile = FALSE /\ wants_media = FALSE /\ embedding = None
    /\ matches = <<>> /\ mi = 1 /\ retrieved = NoneRetrieved
    /\ full_response = "" /\ response_text = "" /\ suggestions = <<>>
    /\ final_images = <<>> /\ final_videos = <<>> /\ result = None

\* Lines 86-94
ChatIntent ==
    /\ hpc = "start"
    /\ matched_projects' = get_matched_project_ids(query)
    /\ show_profile' = should_show_profile_image(query)
    /\ wants_media' = should_show_media(query)
    /\ hpc' = "embed"
    /\ UNCHANGED <<kvars, gvars, svars, dvars, lvars, query, embedding, matches, mi,
                   retrieved, full_response, response_text, suggestions,
                   final_images, final_videos, result>>

\* Lines 97-101: embedding_service.get_embedding(query) returns a vector of
\* the BGE model or raises, which ends the request with HTTP 500.
ChatEmbed ==
    /\ hpc = "embed"
    /\ \/ embedding' = [kind |-> "text", dim |-> BGE_DIMENSION] /\ hpc' = "query"
       \/ embedding' = embedding /\ hpc' = "http500"
    /\ UNCHANGED <<kvars, gvars, svars, dvars, lvars, query, matched_projects,
                   show_profile, wants_media, matches, mi, retrieved,
                   full_response, response_text, suggestions, final_images,
                   final_videos, result>>

\* Line 104: vector_db.query_vectors(embedding, top_k=100) is called.
ChatQuery ==
    /\ hpc = "query"
    /\ query_vectors(embedding)
    /\ hpc' = "querying"
    /\ UNCHANGED <<kvars, gvars, lvars, query, matched_projects, show_profile,
                   wants_media, embedding, matches, mi, retrieved,
                   full_response, response_text, suggestions, final_images,
                   final_videos, result>>

\* The lists of matches a query may return: vectors of the index, each at
\* most once, ranked by descending score.
MatchLists ==
    { m \in UNION { [1..n -> [v : DOMAIN IndexedVectors, score : Scores]] :
                      n \in 0..MaxMatches } :
        /\ \A a, b \in DOMAIN m : a # b => m[a].v # m[b].v
        /\ \A a, b \in DOMAIN m : a < b => m[a].score >= m[b].score }

\* Lines 104-108: query_vectors has returned search_results, or raised,
\* which ends the request with HTTP 500 (line 209).
ChatMatches ==
    /\ hpc = "querying" /\ op = "none"
    /\ IF ores = "ok"
       THEN /\ \E m \in MatchLists :
                 matches' = [j \in DOMAIN m |-> Match(IndexedVectors[m[j].v], m[j].score)]
            /\ hpc' = "loop"
       ELSE matches' = matches /\ hpc' = "http500"
    /\ mi' = 1 /\ retrieved' = NoneRetrieved
    /\ UNCHANGED <<kvars, gvars, svars, dvars, lvars, query, matched_projects,
                   show_profile, wants_media, embedding, full_response,
                   response_text, suggestions, final_images, final_videos, result>>

\* Lines 110-136, one iteration.
ChatLoop ==
    /\ hpc = "loop" /\ mi <= Len(matches)
    /\ retrieved' = RetrieveStep(retrieved, matches[mi], RELEVANCE_THRESHOLD)
    /\ mi' = mi + 1
    /\ UNCHANGED <<kvars, gvars, svars, dvars, lvars, query, hpc, matched_projects,
                   show_profile, wants_media, embedding, matches, full_response,
                   response_text, suggestions, final_images, final_videos, result>>

\* The loop is exhausted (line 138).
ChatLoopDone ==
    /\ hpc = "loop" /\ mi > Len(matches)
    /\ hpc' = "generate"
    /\ UNCHANGED <<kvars, gvars, svars, dvars, lvars, query, matched_projects,
                   show_profile, wants_media, embedding, matches, mi, retrieved,
                   full_response, response_text, suggestions, final_images,
                   final_videos, result>>

\* Lines 142-151: the generator's text is split into answer and suggestions.
ChatGenerate ==
    /\ hpc = "generate"
    /\ \E r \in DOMAIN Responses : full_response' = Responses[r]
    /\ response_text' = ParseResponse(full_response').response_text
    /\ suggestions' = ParseResponse(full_response').suggestions
    /\ hpc' = "attach"
    /\ UNCHANGED <<kvars, gvars, svars, dvars, lvars, query, matched_projects,
                   show_profile, wants_media, embedding, matches, mi, retrieved,
                   final_images, final_videos, result>>

\* Lines 154-182: the media are chosen and de-duplicated.
ChatAttach ==
    /\ hpc = "attach"
    /\ LET mbp == retrieved.media_by_project
           profile == ProfileImages(show_profile, retrieved.profile_image)
       IN  IF wants_media
           THEN \E order \in Orders(matched_projects) :
                  /\ final_images' = Dedupe(profile \o MatchedMedia(mbp, order, "images"))
                  /\ final_videos' = Dedupe(MatchedMedia(mbp, order, "videos"))
           ELSE /\ final_images' = Dedupe(profile)
                /\ final_videos' = Dedupe(SuggestedVideos(mbp))
    /\ hpc' = "compose"
    /\ UNCHANGED <<kvars, gvars, svars, dvars, lvars, query, matched_projects,
                   show_profile, wants_media, embedding, matches, mi, retrieved,
                   full_response, response_text, suggestions, result>>

\* Lines 185-207: the Visuals section is appended and the body returned.
ChatCompose ==
    /\ hpc = "compose"
    /\ response_text' = WithVisuals(response_text, final_images, final_videos)
    /\ result' = [ response     |-> response_text',
                   provider     |-> "openrouter",
                   context_used |-> Len(retrieved.context_text) > 0,
                   images       |-> final_images,
                   videos       |-> final_videos,
                   suggestions  |-> suggestions ]
    /\ hpc' = "returned"
    /\ UNCHANGED <<kvars, gvars, svars, dvars, lvars, query, matched_projects,
                   show_profile, wants_media, embedding, matches, mi, retrieved,
                   full_response, suggestions, final_images, final_videos>>

NextChat ==
    \/ ChatIntent \/ ChatEmbed \/ ChatQuery \/ QueryEnd \/ ChatMatches
    \/ ChatLoop \/ ChatLoopDone \/ ChatGenerate \/ ChatAttach \/ ChatCompose

SpecChat == InitChat /\ [][NextChat]_vars

-----------------------------------------------------------------------------
(* Claims about chat_endpoint *)

\* The matches the loop has been through.
Seen == SubSeq(matches, 1, mi - 1)

\* The loop over the matches has started.
InOrPastLoop == hpc \in {"loop", "generate", "attach", "compose", "returned"}

\* The matches of the list whose score is strictly above the threshold.
Above(ms, threshold) == SelectSeq(ms, LAMBDA m : m.score > threshold)

\* The texts of the matches, each followed by the separator.
RECURSIVE TextsOf(_)
TextsOf(ms) ==
    IF ms = <<>> THEN ""
    ELSE Get(Head(ms).metadata, "text", "") \o "\n---\n" \o TextsOf(Tail(ms))

\* The URLs under the key in the metadata of the matches of the type.
UrlsOf(ms, type, key) ==
    { ms[j].metadata[key] :
        j \in { k \in DOMAIN ms : /\ Get(ms[k].metadata, "type", "") = type
                                  /\ key \in DOMAIN ms[k].metadata } }

\* Every URL collected in media_by_project.
CollectedUrls(mbp) ==
    UNION { { mbp[j].images[k] : k \in DOMAIN mbp[j].images }
            \cup { mbp[j].videos[k] : k \in DOMAIN mbp[j].videos } :
            j \in DOMAIN mbp }

\* The locals of the loop after it ran through all the matches with the
\* threshold.
RECURSIVE Retrieve(_, _)
Retrieve(ms, threshold) ==
    IF ms = <<>> THEN NoneRetrieved
    ELSE RetrieveStep(Retrieve(SubSeq(ms, 1, Len(ms) - 1), threshold),
                      ms[Len(ms)], threshold)

\* C9: the context is exactly the texts of the matches seen so far whose
\* score is strictly greater than the threshold, every collected media URL
\* and the profile image candidate come from such a match, and once the
\* loop is through the request's matches, running it over them with a
\* higher threshold never gives a longer context.
C9_RelevanceFilter ==
    InOrPastLoop =>
      LET kept == Above(Seen, RELEVANCE_THRESHOLD)
      IN  /\ retrieved.context_text = TextsOf(kept)
          /\ CollectedUrls(retrieved.media_by_project)
               \subseteq UrlsOf(kept, "project", "image_url")
                         \cup UrlsOf(kept, "project", "video_url")
          /\ retrieved.profile_image # None
               => retrieved.profile_image \in UrlsOf(kept, "profile", "image_url")
          /\ hpc = "generate" =>
               \A t1, t2 \in Scores :
                 t1 < t2 => Len(Retrieve(matches, t2).context_text)
                              <= Len(Retrieve(matches, t1).context_text)

\* The loop is through a profile match with an image exactly at the
\* threshold, which left no candidate, and a match above it, which gave
\* the context.
C9_Witness ==
    /\ hpc = "generate"
    /\ \E j \in DOMAIN matches :
         /\ matches[j].score = RELEVANCE_THRESHOLD
         /\ Get(matches[j].metadata, "type", "") = "profile"
         /\ "image_url" \in DOMAIN matches[j].metadata
    /\ \E j \in DOMAIN matches : matches[j].score > RELEVANCE_THRESHOLD
    /\ retrieved.context_text # ""
    /\ retrieved.profile_image = None

\* C10: when retrieval collected a profile image candidate, the response's
\* images hold it exactly when the lower-cased query contains one of the
\* profile-intent phrases.
C10_ProfileImagePolicy ==
    (hpc = "returned" /\ Truthy(retrieved.profile_image)) =>
        LET lowered == Lower(query)
        IN  InSeq(retrieved.profile_image, result.images)
              <=> \E j \in DOMAIN PROFILE_KEYWORDS :
                    Contains(lowered, PROFILE_KEYWORDS[j])

\* A query that has the phrase only after lower-casing returned the
\* collected profile image.
C10_Witness ==
    /\ hpc = "returned" /\ query = "Who are you?"
    /\ Truthy(retrieved.profile_image)
    /\ InSeq(retrieved.profile_image, result.images)

\* The media-request words the claim C11 lists.
ListedMediaWords ==
    << "show", "image", "picture", "video", "demo", "see", "watch", "visual" >>

AlphaNumeric == LowerCase \o "0123456789"

\* s lower-cased and without its non-alphanumeric characters.
Normalized(s) == SelectSeq(Lower(s), LAMBDA c : Contains(AlphaNumeric, c))

\* The project of the entry is identified from the query: by the keyword
\* mapping, or by its normalized title, longer than 3, being in the
\* normalized query.
Identified(e, q) ==
    \/ \E k \in DOMAIN PROJECT_KEYWORDS :
         /\ PROJECT_KEYWORDS[k].project_id = e.project_id
         /\ \E j \in DOMAIN PROJECT_KEYWORDS[k].keywords :
              Contains(Lower(q), PROJECT_KEYWORDS[k].keywords[j])
    \/ /\ Len(Normalized(e.title)) > 3
       /\ Contains(Normalized(q), Normalized(e.title))

\* C11: an image of a collected project is in the returned images only if
\* the query has one of the listed media-request words and identifies the
\* project; a query without such a word gets no project image.
C11_ProjectImagePolicy ==
    hpc = "returned" =>
      \A e \in { retrieved.media_by_project[j] : j \in DOMAIN retrieved.media_by_project } :
        \A k \in DOMAIN e.images :
          InSeq(e.images[k], result.images) =>
            /\ \E w \in DOMAIN ListedMediaWords :
                 Contains(Lower(query), ListedMediaWords[w])
            /\ Identified(e, query)

\* No element occurs twice in the list.
NoRepeats(list) == \A a, b \in DOMAIN list : a # b => list[a] # list[b]

\* The position of the first occurrence of x in the list, 0 if none.
FirstAt(list, x) ==
    IF InSeq(x, list)
    THEN CHOOSE j \in DOMAIN list :
           list[j] = x /\ \A k \in 1..(j - 1) : list[k] # x
    ELSE 0

\* The URLs of the selected list that come from one collected list keep
\* the order in which they were first collected.
FirstSeenOrder(selected, collected) ==
    \A a, b \in DOMAIN selected :
      (/\ a < b
       /\ InSeq(selected[a], collected) /\ InSeq(selected[b], collected))
        => FirstAt(collected, selected[a]) < FirstAt(collected, selected[b])

\* C12: the returned images and videos hold no URL that occurs verbatim in
\* the generated answer body, hold no URL twice, and keep the URLs of every
\* project in first-seen order.
C12_MediaDeduplicated ==
    hpc = "returned" =>
      LET body == ParseResponse(full_response).response_text
          mbp  == retrieved.media_by_project
      IN  /\ \A j \in DOMAIN result.images : ~Contains(body, result.images[j])
          /\ \A j \in DOMAIN result.videos : ~Contains(body, result.videos[j])
          /\ NoRepeats(result.images) /\ NoRepeats(result.videos)
          /\ \A j \in DOMAIN mbp :
               /\ FirstSeenOrder(result.images, mbp[j].images)
               /\ FirstSeenOrder(result.videos, mbp[j].videos)

\* The uniqueness and order parts of C12 alone, which the code keeps.
C12_UniqueInOrder ==
    hpc = "returned" =>
      /\ NoRepeats(result.images) /\ NoRepeats(result.videos)
      /\ \A j \in DOMAIN retrieved.media_by_project :
           /\ FirstSeenOrder(result.images, retrieved.media_by_project[j].images)
           /\ FirstSeenOrder(result.videos, retrieved.media_by_project[j].videos)

\* The text before the first occurrence of the marker.
BeforeMarker(full) == SubSeq(full, 1, FindFrom(full, SUGGESTIONS_MARKER, 1) - 1)

\* C13: when the generated text has the marker <<SUGGESTIONS>>, the
\* returned answer begins with the text before the marker and exactly three
\* suggestions are returned.
C13_ThreeSuggestions ==
    (hpc = "returned" /\ Contains(full_response, SUGGESTIONS_MARKER)) =>
        /\ StartsWith(result.response, Strip(BeforeMarker(full_response)))
        /\ Len(result.suggestions) = 3

\* The body part of C13 alone, which the code keeps.
C13_BodyBeforeMarker ==
    (hpc = "returned" /\ Contains(full_response, SUGGESTIONS_MARKER)) =>
        StartsWith(result.response, Strip(BeforeMarker(full_response)))

-----------------------------------------------------------------------------
(* get_embedding (app/services/embedding_service.py)                       *)

\* Line 18
max_retries == 3

\* The texts of the exceptions client.feature_extraction raises.
UpstreamErrors ==
    << "503 Service Unavailable",
       "Model BAAI/bge-small-en-v1.5 is currently loading",
       "429 Too Many Requests",
       "401 Unauthorized" >>

\* Line 16
NotConfigured == "HUGGINGFACE_API_KEY is not set in .env"

\* Line 48
RetriesExhausted == "Embedding generation failed after retries."

\* Line 38: "503" in error_str or "loading" in error_str.lower()
IsLoading(error_str) ==
    Contains(error_str, "503") \/ Contains(Lower(error_str), "loading")

\* Line 41: "429" in error_str
IsRateLimited(error_str) == Contains(error_str, "429")

\* The test of lines 38-43 with every exception retried.
Retried_any(error_str) == TRUE

\* Lines 38-43: the exception makes the loop continue.
Retried(error_str) == IsLoading(error_str) \/ IsRateLimited(error_str)

\* 2 ** n
RECURSIVE Pow2(_)
Pow2(n) == IF n = 0 THEN 1 ELSE 2 * Pow2(n - 1)

\* Lines 39 and 42: the seconds slept before the loop continues.
Backoff(error_str, n) == IF IsLoading(error_str) THEN 5 ELSE Pow2(n)

\* A caller calls get_embedding(text).
CallGetEmbedding ==
    /\ gpc = "idle"
    /\ \E q \in DOMAIN Queries : gtext' = Queries[q]
    /\ gpc' = "entered"
    /\ UNCHANGED <<kvars, svars, dvars, lvars, hvars, hfKey, attempt,
                   upstream, slept, gres>>

\* Lines 15-19: the credential is tested and the loop set up.
GetEmbeddingEnter ==
    /\ gpc = "entered"
    /\ IF ~hfKey
       THEN gpc' = "raised" /\ gres' = NotConfigured /\ attempt' = attempt
       ELSE gpc' = "attempt" /\ attempt' = 0 /\ gres' = gres
    /\ UNCHANGED <<kvars, svars, dvars, lvars, hvars, hfKey, gtext,
                   upstream, slept>>

\* Lines 20-46, one iteration: the upstream call returns the vector of the
\* BGE model, or raises; a retried exception sleeps, another is raised.
GetEmbeddingAttempt ==
    /\ gpc = "attempt" /\ attempt < max_retries
    /\ \/ /\ upstream' = Append(upstream, "ok")
          /\ gres' = [kind |-> "text", dim |-> BGE_DIMENSION]
          /\ gpc' = "returned" /\ slept' = slept
       \/ \E e \in DOMAIN UpstreamErrors :
            LET error_str == UpstreamErrors[e]
            IN  /\ upstream' = Append(upstream, error_str)
                /\ IF Retried(error_str)
                   THEN /\ slept' = Append(slept, Backoff(error_str, attempt))
                        /\ gpc' = "sleeping" /\ gres' = gres
                   ELSE /\ gpc' = "raised" /\ gres' = error_str
                        /\ slept' = slept
    /\ UNCHANGED <<kvars, svars, dvars, lvars, hvars, hfKey, gtext, attempt>>

\* Lines 40 and 43: the sleep is over and the loop continues.
GetEmbeddingContinue ==
    /\ gpc = "sleeping"
    /\ attempt' = attempt + 1
    /\ gpc' = "attempt"
    /\ UNCHANGED <<kvars, svars, dvars, lvars, hvars, hfKey, gtext,
                   upstream, slept, gres>>

\* Line 48: the loop is exhausted.
GetEmbeddingExhausted ==
    /\ gpc = "attempt" /\ attempt >= max_retries
    /\ gpc' = "raised" /\ gres' = RetriesExhausted
    /\ UNCHANGED <<kvars, svars, dvars, lvars, hvars, hfKey, gtext, attempt,
                   upstream, slept>>

\* The service before a call, with or without the credential.
InitEmbed ==
    /\ hfKey \in BOOLEAN /\ gtext = "" /\ gpc = "idle" /\ attempt = 0
    /\ upstream = <<>> /\ slept = <<>> /\ gres = None
    /\ data = EmptyDict /\ kpc = "input" /\ chunks = <<>>
    /\ StoreIdle /\ DbIdle /\ LoadIdle /\ ChatIdle

NextEmbed ==
    \/ CallGetEmbedding \/ GetEmbeddingEnter \/ GetEmbeddingAttempt
    \/ GetEmbeddingContinue \/ GetEmbeddingExhausted

\* Every upstream call and every sleep ends, and the function goes on.
SpecEmbed == InitEmbed /\ [][NextEmbed]_vars /\ WF_vars(NextEmbed)

\* The outcome of an upstream call is a transient signal: 503 or model
\* loading, or 429 rate limit.
TransientSignal(outcome) ==
    \/ Contains(outcome, "503") \/ Contains(Lower(outcome), "loading")
    \/ Contains(outcome, "429")

\* get_embedding has returned or raised.
EmbedEnded == gpc \in {"returned", "raised"}

\* The state part of C14.
BoundedRetry ==
    /\ Len(upstream) <= 3
    /\ \A j \in 1..(Len(upstream) - 1) : TransientSignal(upstream[j])
    /\ \A j \in DOMAIN upstream :
         (upstream[j] # "ok" /\ ~TransientSignal(upstream[j]))
           => (j = Len(upstream) /\ gpc = "raised" /\ gres = upstream[j])
    /\ (/\ EmbedEnded /\ Len(upstream) = 3
        /\ \A j \in DOMAIN upstream : TransientSignal(upstream[j]))
         => gpc = "raised"
    /\ ~hfKey => (upstream = <<>> /\ gpc \in {"idle", "entered", "raised"})
    /\ gpc = "returned" => (upstream # <<>> /\ upstream[Len(upstream)] = "ok")

\* C14: a call of get_embedding makes at most 3 upstream attempts, every
\* attempt but the last ended in a transient signal, a non-transient error
\* is raised at once, three transient failures end in a raise, a missing
\* credential raises before any upstream call, and every call ends.
C14_BoundedRetry ==
    /\ []BoundedRetry
    /\ (gpc = "entered") ~> EmbedEnded

\* Three transient failures, a rate limit among them, ended the call in
\* the raise of line 48.
C14_Witness ==
    /\ gpc = "raised" /\ gres = RetriesExhausted
    /\ Len(upstream) = 3
    /\ \E j \in DOMAIN upstream : Contains(upstream[j], "429")

-----------------------------------------------------------------------------
(* Claims about vector_db and the dimensions *)

StoreCalls == {"query", "upsert", "delete_all"}

\* A call of a vector_db function begins.
CallBegins == op = "none" /\ op' \in StoreCalls

\* The running call is about to perform its store operation.
AboutToOperate == op \in StoreCalls /\ epc = "returned"

\* C15: every upsert_vectors, delete_all_vectors and query_vectors call
\* enters the check of the index before its store operation, and performs
\* the operation on an index that exists and is ready.
C15_IndexPrecondition ==
    /\ [][CallBegins => epc' = "list"]_vars
    /\ [](AboutToOperate => Serving)

\* The first part of C15 for upsert_vectors and delete_all_vectors alone,
\* which the code keeps.
C15_WritesCheck ==
    [][(op = "none" /\ op' \in {"upsert", "delete_all"}) => epc' = "list"]_vars

\* The second part of C15 alone.
C15_ReadyWhenOperating == AboutToOperate => Serving

\* The first part of C15 alone.
C15_EveryCallChecks == [][CallBegins => epc' = "list"]_vars

\* C16: the vector chat_endpoint passes to query_vectors has the dimension
\* the index is created with, which is also the dimension of every vector
\* the ingestion upserts.
C16_DimensionConsistency ==
    hpc = "querying" =>
      /\ arg.dim = REQUIRED_DIMENSION
      /\ \A j \in DOMAIN IndexedVectors : IndexedVectors[j].values.dim = arg.dim

\* What follows from the mismatch: against an index of the dimension the
\* code creates, no request gets as far as the matches.
C16_NoAnswerFromOwnIndex ==
    sdim = REQUIRED_DIMENSION => hpc \in {"start", "embed", "query", "querying", "http500"}

====
